---- MODULE Spec2Model ----
(***************************************************************************)
(* Augmented, randomized Diamond-Square heightmap generator (aug_ds.py).   *)
(*                                                                         *)
(* world_map[x][y] is the heightmap, x in 0..W-1 (len(world_map)) and y in *)
(* 0..H-1 (len(world_map[0])).  The recursion of auxRandAugDS is modelled  *)
(* by its call stack: the pending regions, the next call on top.  Every    *)
(* result of the random source is a nondeterministic choice among the      *)
(* values the draw can return.                                             *)
(*                                                                         *)
(* Python's int() of a quotient truncates toward zero; the quotients here  *)
(* are of small integers, so the float result truncates as the exact       *)
(* rational does.                                                          *)
(***************************************************************************)
EXTENDS Integers, Sequences, FiniteSets, TLC

\* ---------------------------------------------------------------- bounds

\* Largest grid side of a generation run.
MaxDim == 4

\* random.random() is drawn as rk / RDen, rk in 0..RDen-1.
RDen == 4

\* Largest index handed to randAugIndex when it is run on its own.
MaxIdx == 8

\* Largest grid side edgeCleanup is run on when it is run on its own.
CleanDim == 4

\* Grid side of the map one call of auxRandAugDS is run on.
StepDim == 4

\* Cell values of the grids auxRandAugDS and edgeCleanup are started on
\* when they are run on their own.
Vals == {-3, -1, 0, 2}

\* ------------------------------------------------------------- constants

\* HEIGHT_VARIATION_FACTOR = 0.2, in tenths.
HEIGHT_VARIATION_TENTHS == 2

\* RANDOMIZATION_SCALE_FACTOR = 0.2, in tenths.
RANDOMIZATION_SCALE_TENTHS == 2

VARIABLES
    W,          \* len(world_map)
    H,          \* len(world_map[0])
    world_map,  \* the heightmap
    pc,         \* where the run is: "start", "aux", "done", "error", ...
    stack,      \* pending calls of auxRandAugDS, <<x0, y0, x1, y1>>, next first
    writes,     \* cells assigned so far, by corner init, driver and cleanup
    events,     \* log of calls, draws and writes, in program order
    last,       \* what the most recent call of auxRandAugDS did
    before,     \* the heightmap as the most recent edgeCleanup found it
    probe       \* one call of randAugIndex: its arguments and result

vars == <<W, H, world_map, pc, stack, writes, events, last, before, probe>>

\* ---------------------------------------------------------------- helpers

Max(a, b) == IF a >= b THEN a ELSE b

\* int(n / d) for d > 0: truncation toward zero.
TruncDiv(n, d) == IF n >= 0 THEN n \div d ELSE -((-n) \div d)

ZeroMap(w, h) == [x \in 0..(w - 1) |-> [y \in 0..(h - 1) |-> 0]]

SetCell(g, x, y, v) == [g EXCEPT ![x][y] = v]

Rows(g) == Cardinality(DOMAIN g)

Cols(g) == Cardinality(DOMAIN g[0])

\* A Python list index k into a list of length n: valid, and the position it names.
PyOk(k, n) == k >= -n /\ k < n

PyIdx(k, n) == IF k < 0 THEN k + n ELSE k

Cells(w, h) == (0..(w - 1)) \X (0..(h - 1))

CornerCells(w, h) == {<<0, 0>>, <<0, h - 1>>, <<w - 1, 0>>, <<w - 1, h - 1>>}

BorderCells(w, h) ==
    {c \in Cells(w, h) : c[1] = 0 \/ c[1] = w - 1 \/ c[2] = 0 \/ c[2] = h - 1}

NoLast ==
    [branch |-> "none", reg |-> <<0, 0, 0, 0>>, i |-> 0, j |-> 0,
     a |-> 0, b |-> 0, nev |-> 0, depth |-> 0]

NoProbe == [i0 |-> 0, i1 |-> 0, rk |-> 0, out |-> 0, called |-> FALSE]

\* ------------------------------------------------------- dev, randAugIndex

\* The bound of dev's randint: max(x1 - x0, y1 - y0).
DevRange(x0, y0, x1, y1) == Max(x1 - x0, y1 - y0)

\* dev, given what random.randint(-m, m) returned.
dev(x0, y0, x1, y1, draw) == TruncDiv(HEIGHT_VARIATION_TENTHS * draw, 10)

\* Every value dev can return for the region.
DevOutcomes(x0, y0, x1, y1) ==
    LET m == DevRange(x0, y0, x1, y1)
    IN  {dev(x0, y0, x1, y1, d) : d \in (-m)..m}

\* Whether randAugIndex reaches its random.random() draw.
IndexDraws(i0, i1) ==
    ~(i0 = i1 \/ i1 < i0) /\ i0 + 1 # i1 /\ i0 + 2 # i1

\* randAugIndex without its `i0 + 1 == i1` case.
randAugIndexNoAdjacent(i0, i1, rk) ==
    IF i0 = i1 \/ i1 < i0 THEN i0
    ELSE IF i0 + 2 = i1 THEN i0 + 1
    ELSE LET i == TruncDiv(i0 * 20 * RDen
                           + (RANDOMIZATION_SCALE_TENTHS * rk + 10 * RDen) * (i1 - i0),
                           20 * RDen)
         IN  IF i = i0 THEN i + 1
             ELSE IF i = i1 THEN i - 1
             ELSE i

\* randAugIndex, given random.random() = rk / RDen.
randAugIndex(i0, i1, rk) ==
    IF i0 = i1 \/ i1 < i0 THEN i0
    ELSE IF i0 + 1 = i1 THEN i0
    ELSE IF i0 + 2 = i1 THEN i0 + 1
    ELSE LET i == TruncDiv(i0 * 20 * RDen
                           + (RANDOMIZATION_SCALE_TENTHS * rk + 10 * RDen) * (i1 - i0),
                           20 * RDen)
         IN  IF i = i0 THEN i + 1
             ELSE IF i = i1 THEN i - 1
             ELSE i

\* Every index randAugIndex can return for the bounds.
IndexOutcomes(i0, i1) == {randAugIndex(i0, i1, rk) : rk \in 0..(RDen - 1)}

\* ------------------------------------------------------------- the driver

\* The interpolated value rounded down instead of truncated.
SlopeFloor(a, b, k0, k1, k) == (a * (k1 - k0) + (b - a) * (k - k0)) \div (k1 - k0)

\* One interpolated value: int(a + (b - a) * (k - k0) / (k1 - k0)).
Slope(a, b, k0, k1, k) == TruncDiv(a * (k1 - k0) + (b - a) * (k - k0), k1 - k0)

\* The loop of the column branch, from y on: line i between y0 and y1.
RECURSIVE InterpCol(_, _, _, _, _)
InterpCol(g, i, y0, y1, y) ==
    IF y >= y1 THEN g
    ELSE LET g1 == SetCell(g, i, y, Slope(g[i][y0], g[i][y1], y0, y1, y))
             g2 == SetCell(g1, i, y, Slope(g1[i][y0], g1[i][y1], y0, y1, y))
         IN  InterpCol(g2, i, y0, y1, y + 1)

\* The row branch's value: int(a + (a - b) * (x - x0) / (x1 - x0)), a the
\* value at x0 and b the value at x1.
RowSlope(a, b, x0, x1, x) == TruncDiv(a * (x1 - x0) + (a - b) * (x - x0), x1 - x0)

\* The loop of the row branch, from x on: line j between x0 and x1.
RECURSIVE InterpRow(_, _, _, _, _)
InterpRow(g, j, x0, x1, x) ==
    IF x >= x1 THEN g
    ELSE LET g1 == SetCell(g, x, j, RowSlope(g[x0][j], g[x1][j], x0, x1, x))
             g2 == SetCell(g1, x, j, RowSlope(g1[x0][j], g1[x1][j], x0, x1, x))
         IN  InterpRow(g2, j, x0, x1, x + 1)

\* Diamond, given the value dev returned.
Diamond(g, x0, y0, x1, y1, i, j, d) ==
    SetCell(g, i, j, d + TruncDiv(g[x0][y0] + g[x1][y0] + g[x0][y1] + g[x1][y1], 4))

\* Square, given the four values dev returned, in the order drawn.
Square(g, x0, y0, x1, y1, i, j, d1, d2, d3, d4) ==
    LET g1 == SetCell(g, x0, j, d1 + TruncDiv(g[x0][y0] + g[x0][y1] + g[i][j], 3))
        g2 == SetCell(g1, x1, j, d2 + TruncDiv(g1[x1][y0] + g1[x1][y1] + g1[i][j], 3))
        g3 == SetCell(g2, i, y0, d3 + TruncDiv(g2[x0][y0] + g2[x1][y0] + g2[i][j], 3))
    IN  SetCell(g3, i, y1, d4 + TruncDiv(g3[x0][y1] + g3[x1][y1] + g3[i][j], 3))

\* The recursive calls with the second and third exchanged.
SubRegionsSwapped(x0, y0, x1, y1, i, j) ==
    << <<x0, y0, i, j>>, <<i, y0, x1, j>>, <<x0, j, i, y1>>, <<i, j, x1, y1>> >>

\* The four recursive calls of the general case, in call order.
SubRegions(x0, y0, x1, y1, i, j) ==
    << <<x0, y0, i, j>>, <<x0, j, i, y1>>, <<i, y0, x1, j>>, <<i, j, x1, y1>> >>

\* Log entries: <<kind, x0, y0, x1, y1, p, q>>, the region being the call
\* the entry belongs to.
Ev(kind, r, p, q) == <<kind, r[1], r[2], r[3], r[4], p, q>>

\* The random.random() draws of a call's two randAugIndex calls, x first.
MidEvents(r) ==
    (IF IndexDraws(r[1], r[3]) THEN <<Ev("mid", r, r[1], r[3])>> ELSE <<>>)
    \o (IF IndexDraws(r[2], r[4]) THEN <<Ev("mid", r, r[2], r[4])>> ELSE <<>>)

\* The draws and writes of Diamond and Square, in program order.
StepEvents(r, i, j) ==
    << Ev("dev", r, DevRange(r[1], r[2], r[3], r[4]), 0), Ev("write", r, i, j),
       Ev("dev", r, DevRange(r[2], r[2], r[4], r[4]), 0), Ev("write", r, r[1], j),
       Ev("dev", r, DevRange(r[2], r[2], r[4], r[4]), 0), Ev("write", r, r[3], j),
       Ev("dev", r, DevRange(r[1], r[1], r[3], r[3]), 0), Ev("write", r, i, r[2]),
       Ev("dev", r, DevRange(r[1], r[1], r[3], r[3]), 0), Ev("write", r, i, r[4]) >>

ColEvents(r, i) == [k \in 1..Max(r[4] - r[2] - 1, 0) |-> Ev("write", r, i, r[2] + k)]

RowEvents(r, j) == [k \in 1..Max(r[3] - r[1] - 1, 0) |-> Ev("write", r, r[1] + k, j)]

Done(branch, r, i, j, a, b) ==
    [branch |-> branch, reg |-> r, i |-> i, j |-> j, a |-> a, b |-> b,
     nev |-> Len(events), depth |-> Len(stack)]

\* auxRandAugDS on a point: returns at once.
AuxTerminal ==
    /\ pc = "aux"
    /\ stack # <<>>
    /\ LET r == Head(stack)
       IN  /\ r[1] = r[3] /\ r[2] = r[4]
           /\ stack' = Tail(stack)
           /\ events' = Append(events, Ev("call", r, -1, -1))
           /\ last' = Done("terminal", r, -1, -1, 0, 0)
    /\ UNCHANGED <<W, H, world_map, pc, writes, before, probe>>

\* auxRandAugDS, i = x0 or i = x1: interpolate line i from y0 to y1, return.
AuxColumn ==
    /\ pc = "aux"
    /\ stack # <<>>
    /\ LET r == Head(stack)
           x0 == r[1]
           y0 == r[2]
           x1 == r[3]
           y1 == r[4]
       IN  /\ ~(x0 = x1 /\ y0 = y1)
           /\ \E i \in IndexOutcomes(x0, x1), j \in IndexOutcomes(y0, y1) :
                /\ i = x0 \/ i = x1
                /\ world_map' = InterpCol(world_map, i, y0, y1, y0 + 1)
                /\ writes' = [writes EXCEPT
                       !.driver = @ \cup {<<i, y>> : y \in (y0 + 1)..(y1 - 1)}]
                /\ events' = events \o <<Ev("call", r, i, j)>> \o MidEvents(r)
                                    \o ColEvents(r, i)
                /\ last' = Done("column", r, i, j, world_map[i][y0], world_map[i][y1])
           /\ stack' = Tail(stack)
    /\ UNCHANGED <<W, H, pc, before, probe>>

\* auxRandAugDS, i interior and j = y0 or j = y1: interpolate line j, return.
AuxRow ==
    /\ pc = "aux"
    /\ stack # <<>>
    /\ LET r == Head(stack)
           x0 == r[1]
           y0 == r[2]
           x1 == r[3]
           y1 == r[4]
       IN  /\ ~(x0 = x1 /\ y0 = y1)
           /\ \E i \in IndexOutcomes(x0, x1), j \in IndexOutcomes(y0, y1) :
                /\ ~(i = x0 \/ i = x1)
                /\ j = y0 \/ j = y1
                /\ world_map' = InterpRow(world_map, j, x0, x1, x0 + 1)
                /\ writes' = [writes EXCEPT
                       !.driver = @ \cup {<<x, j>> : x \in (x0 + 1)..(x1 - 1)}]
                /\ events' = events \o <<Ev("call", r, i, j)>> \o MidEvents(r)
                                    \o RowEvents(r, j)
                /\ last' = Done("row", r, i, j, world_map[x0][j], world_map[x1][j])
           /\ stack' = Tail(stack)
    /\ UNCHANGED <<W, H, pc, before, probe>>

\* auxRandAugDS, (i, j) interior: Diamond, Square, then the four sub-regions.
AuxGeneral ==
    /\ pc = "aux"
    /\ stack # <<>>
    /\ LET r == Head(stack)
           x0 == r[1]
           y0 == r[2]
           x1 == r[3]
           y1 == r[4]
       IN  /\ ~(x0 = x1 /\ y0 = y1)
           /\ \E i \in IndexOutcomes(x0, x1), j \in IndexOutcomes(y0, y1) :
                /\ ~(i = x0 \/ i = x1)
                /\ ~(j = y0 \/ j = y1)
                /\ \E d0 \in DevOutcomes(x0, y0, x1, y1),
                      d1 \in DevOutcomes(y0, y0, y1, y1),
                      d2 \in DevOutcomes(y0, y0, y1, y1),
                      d3 \in DevOutcomes(x0, x0, x1, x1),
                      d4 \in DevOutcomes(x0, x0, x1, x1) :
                     world_map' =
                         Square(Diamond(world_map, x0, y0, x1, y1, i, j, d0),
                                x0, y0, x1, y1, i, j, d1, d2, d3, d4)
                /\ writes' = [writes EXCEPT
                       !.driver = @ \cup {<<i, j>>, <<x0, j>>, <<x1, j>>,
                                          <<i, y0>>, <<i, y1>>}]
                /\ events' = events \o <<Ev("call", r, i, j)>> \o MidEvents(r)
                                    \o StepEvents(r, i, j)
                /\ last' = Done("general", r, i, j, 0, 0)
                /\ stack' = SubRegions(x0, y0, x1, y1, i, j) \o Tail(stack)
    /\ UNCHANGED <<W, H, pc, before, probe>>

\* ------------------------------------------------------------ edgeCleanup

\* A cleanup step that rewrites the cell whatever its value.
CleanCellAlways(s, x, y, inner, n1, n2, n3) ==
    LET g == s.g
        w == Rows(g)
        h == Cols(g)
        Ok(c) == PyOk(c[1], w) /\ PyOk(c[2], h)
        At(c) == g[PyIdx(c[1], w)][PyIdx(c[2], h)]
    IN  IF s.err THEN s
        ELSE IF ~Ok(<<x, y>>) THEN [s EXCEPT !.err = TRUE]
        ELSE IF ~inner THEN s
        ELSE IF ~(Ok(n1) /\ Ok(n2) /\ Ok(n3)) THEN [s EXCEPT !.err = TRUE]
        ELSE [g |-> SetCell(g, PyIdx(x, w), PyIdx(y, h),
                            TruncDiv(At(n1) + At(n2) + At(n3), 3)),
              err |-> FALSE,
              wr |-> s.wr \cup {<<PyIdx(x, w), PyIdx(y, h)>>}]

\* One `if world_map[x][y] == 0: if <inner>: world_map[x][y] = int((n1+n2+n3)/3)`
\* of edgeCleanup; x, y and the neighbours n1..n3 are Python indices.  s is
\* the loop's state: the map, whether an IndexError was raised, cells written.
CleanCell(s, x, y, inner, n1, n2, n3) ==
    LET g == s.g
        w == Rows(g)
        h == Cols(g)
        Ok(c) == PyOk(c[1], w) /\ PyOk(c[2], h)
        At(c) == g[PyIdx(c[1], w)][PyIdx(c[2], h)]
    IN  IF s.err THEN s
        ELSE IF ~Ok(<<x, y>>) THEN [s EXCEPT !.err = TRUE]
        ELSE IF At(<<x, y>>) # 0 \/ ~inner THEN s
        ELSE IF ~(Ok(n1) /\ Ok(n2) /\ Ok(n3)) THEN [s EXCEPT !.err = TRUE]
        ELSE [g |-> SetCell(g, PyIdx(x, w), PyIdx(y, h),
                            TruncDiv(At(n1) + At(n2) + At(n3), 3)),
              err |-> FALSE,
              wr |-> s.wr \cup {<<PyIdx(x, w), PyIdx(y, h)>>}]

\* The first loop of edgeCleanup, from x on: the lines y = 0 and y = -1.
RECURSIVE CleanRows(_, _)
CleanRows(s, x) ==
    IF x >= Rows(s.g) THEN s
    ELSE LET inner == 0 < x /\ x < Rows(s.g) - 1
             s1 == CleanCell(s, x, 0, inner, <<x - 1, 0>>, <<x, 1>>, <<x + 1, 0>>)
             s2 == CleanCell(s1, x, -1, inner, <<x - 1, -1>>, <<x, -2>>, <<x + 1, -1>>)
         IN  CleanRows(s2, x + 1)

\* The second loop without its pass over the line x = -1.
RECURSIVE CleanColsFirstLine(_, _)
CleanColsFirstLine(s, y) ==
    IF y >= Cols(s.g) THEN s
    ELSE LET inner == 0 < y /\ y < Cols(s.g) - 1
             s1 == CleanCell(s, 0, y, inner, <<0, y - 1>>, <<1, y>>, <<0, y + 1>>)
         IN  CleanColsFirstLine(s1, y + 1)

\* The second loop of edgeCleanup, from y on: the lines x = 0 and x = -1.
RECURSIVE CleanCols(_, _)
CleanCols(s, y) ==
    IF y >= Cols(s.g) THEN s
    ELSE LET inner == 0 < y /\ y < Cols(s.g) - 1
             s1 == CleanCell(s, 0, y, inner, <<0, y - 1>>, <<1, y>>, <<0, y + 1>>)
             s2 == CleanCell(s1, -1, y, inner, <<-1, y - 1>>, <<-2, y>>, <<-1, y + 1>>)
         IN  CleanCols(s2, y + 1)

\* edgeCleanup(world_map): the map it leaves, whether it raised, what it wrote.
edgeCleanup(g) == CleanCols(CleanRows([g |-> g, err |-> FALSE, wr |-> {}], 0), 0)

\* -------------------------------------------------------------- randAugDS

\* The corner initialisation of randAugDS and its call of auxRandAugDS.
InitCorners ==
    /\ pc = "start"
    /\ LET x1 == W - 1
           y1 == H - 1
           r == <<0, 0, x1, y1>>
           m == Max(x1, y1)
       IN  /\ \E c1 \in 0..m, c2 \in 0..m, c3 \in 0..m, c4 \in 0..m :
                world_map' = SetCell(SetCell(SetCell(SetCell(world_map,
                                 0, 0, c1), 0, y1, c2), x1, 0, c3), x1, y1, c4)
           /\ writes' = [writes EXCEPT !.corner = CornerCells(W, H)]
           /\ events' = << Ev("corner", r, m, 0), Ev("write", r, 0, 0),
                           Ev("corner", r, m, 0), Ev("write", r, 0, y1),
                           Ev("corner", r, m, 0), Ev("write", r, x1, 0),
                           Ev("corner", r, m, 0), Ev("write", r, x1, y1) >>
           /\ stack' = <<r>>
    /\ pc' = "aux"
    /\ UNCHANGED <<W, H, last, before, probe>>

\* auxRandAugDS has returned to randAugDS: edgeCleanup, then return world_map.
Cleanup ==
    /\ pc = "aux"
    /\ stack = <<>>
    /\ LET s == edgeCleanup(world_map)
       IN  /\ world_map' = s.g
           /\ writes' = [writes EXCEPT !.cleanup = @ \cup s.wr]
           /\ pc' = IF s.err THEN "error" ELSE "done"
    /\ before' = world_map
    /\ last' = NoLast
    /\ UNCHANGED <<W, H, stack, events, probe>>

Init ==
    /\ W \in 1..MaxDim
    /\ H \in 1..MaxDim
    /\ world_map = ZeroMap(W, H)
    /\ pc = "start"
    /\ stack = <<>>
    /\ writes = [corner |-> {}, driver |-> {}, cleanup |-> {}]
    /\ events = <<>>
    /\ last = NoLast
    /\ before = world_map
    /\ probe = NoProbe

Next ==
    \/ InitCorners
    \/ AuxTerminal
    \/ AuxColumn
    \/ AuxRow
    \/ AuxGeneral
    \/ Cleanup

Spec == Init /\ [][Next]_vars

\* ------------------------------------------- auxRandAugDS on its own (SpecStep)

\* Regions of a w x h map: x0 <= x1, y0 <= y1.
Regions(w, h) ==
    {r \in (0..(w - 1)) \X (0..(h - 1)) \X (0..(w - 1)) \X (0..(h - 1)) :
        r[1] <= r[3] /\ r[2] <= r[4]}

\* A call of auxRandAugDS on any region of a map whose cells are 0 except the
\* region's corners, which earlier steps of the recursion have set.
InitStep ==
    /\ W = StepDim
    /\ H = StepDim
    /\ \E r \in Regions(W, H) :
         /\ stack = <<r>>
         /\ \E c1 \in Vals, c2 \in Vals, c3 \in Vals, c4 \in Vals :
              world_map = SetCell(SetCell(SetCell(SetCell(ZeroMap(W, H),
                              r[1], r[2], c1), r[1], r[4], c2),
                              r[3], r[2], c3), r[3], r[4], c4)
         /\ writes = [corner |-> {<<r[1], r[2]>>, <<r[1], r[4]>>,
                                  <<r[3], r[2]>>, <<r[3], r[4]>>},
                      driver |-> {}, cleanup |-> {}]
    /\ pc = "aux"
    /\ events = <<>>
    /\ last = NoLast
    /\ before = world_map
    /\ probe = NoProbe

NextStep ==
    \/ AuxTerminal
    \/ AuxColumn
    \/ AuxRow
    \/ AuxGeneral

SpecStep == InitStep /\ [][NextStep]_vars

\* --------------------------------------------- randAugIndex on its own (SpecIdx)

InitIdx ==
    /\ W = 1
    /\ H = 1
    /\ world_map = ZeroMap(1, 1)
    /\ pc = "index"
    /\ stack = <<>>
    /\ writes = [corner |-> {}, driver |-> {}, cleanup |-> {}]
    /\ events = <<>>
    /\ last = NoLast
    /\ before = world_map
    /\ \E i0 \in 0..MaxIdx, i1 \in 0..MaxIdx, rk \in 0..(RDen - 1) :
         /\ i0 <= i1
         /\ probe = [i0 |-> i0, i1 |-> i1, rk |-> rk, out |-> 0, called |-> FALSE]

\* randAugIndex(i0, i1) with random.random() = rk / RDen.
CallIndex ==
    /\ pc = "index"
    /\ ~probe.called
    /\ probe' = [probe EXCEPT !.out = randAugIndex(probe.i0, probe.i1, probe.rk),
                              !.called = TRUE]
    /\ UNCHANGED <<W, H, world_map, pc, stack, writes, events, last, before>>

NextIdx == CallIndex

SpecIdx == InitIdx /\ [][NextIdx]_vars

\* ------------------------------------------- edgeCleanup on its own (SpecClean)

\* A w x h map of value v except at cells p1 and p2.
PatchMap(w, h, v, p1, u1, p2, u2) ==
    SetCell(SetCell([x \in 0..(w - 1) |-> [y \in 0..(h - 1) |-> v]],
                    p1[1], p1[2], u1), p2[1], p2[2], u2)

InitClean ==
    /\ W \in 1..CleanDim
    /\ H \in 1..CleanDim
    /\ world_map \in {PatchMap(W, H, v, p1, u1, p2, u2) :
                        v \in Vals, u1 \in Vals, u2 \in Vals,
                        p1 \in Cells(W, H), p2 \in Cells(W, H)}
    /\ pc = "clean0"
    /\ stack = <<>>
    /\ writes = [corner |-> {}, driver |-> {}, cleanup |-> {}]
    /\ events = <<>>
    /\ last = NoLast
    /\ before = world_map
    /\ probe = NoProbe

\* edgeCleanup(world_map), a first and a second time.
CleanupRun ==
    /\ pc \in {"clean0", "clean1"}
    /\ LET s == edgeCleanup(world_map)
       IN  /\ world_map' = s.g
           /\ writes' = [writes EXCEPT !.cleanup = @ \cup s.wr]
           /\ pc' = IF s.err THEN "error"
                    ELSE IF pc = "clean0" THEN "clean1" ELSE "clean2"
    /\ before' = world_map
    /\ UNCHANGED <<W, H, stack, events, last, probe>>

NextClean == CleanupRun

SpecClean == InitClean /\ [][NextClean]_vars

\* ------------------------------------------------------------- properties

\* v is n / d truncated toward zero (d > 0).
Truncates(v, n, d) ==
    /\ d > 0
    /\ IF n >= 0 THEN v * d <= n /\ n < (v + 1) * d
                 ELSE (v - 1) * d < n /\ n <= v * d

AllWritten == writes.corner \cup writes.driver \cup writes.cleanup

\* The log entries the most recent call of auxRandAugDS appended.
LastEvents == SubSeq(events, last.nev + 1, Len(events))

\* C1: randAugDS on an all-zero W x H grid, W, H >= 1, raises no error for
\* any draws: no step indexes the grid out of range.
C1_NoError == pc # "error"

\* C2: when randAugDS returns, every cell has been assigned at least once,
\* by corner initialisation, the driver or edgeCleanup; a cell the driver
\* never writes is a non-corner border cell that edgeCleanup writes.
C2_FullyPopulated ==
    pc = "done" =>
        /\ AllWritten = Cells(W, H)
        /\ \A c \in Cells(W, H) \ (writes.corner \cup writes.driver) :
             /\ c \in BorderCells(W, H) \ CornerCells(W, H)
             /\ c \in writes.cleanup

\* A run has returned with a cell that only edgeCleanup assigned.
C2_Witness ==
    /\ pc = "done"
    /\ writes.cleanup \ (writes.corner \cup writes.driver) # {}

\* Region r lies in region s and is smaller.
Narrower(r, s) ==
    /\ s[1] <= r[1] /\ r[3] <= s[3] /\ s[2] <= r[2] /\ r[4] <= s[4]
    /\ (r[3] - r[1]) + (r[4] - r[2]) < (s[3] - s[1]) + (s[4] - s[2])

\* C4: the run always terminates: every recursive call is on a well-formed
\* region strictly smaller than its parent's, and once the recursion is over
\* edgeCleanup runs and randAugDS returns.
C4_Returns ==
    /\ \A k \in 1..Len(stack) :
         stack[k][1] <= stack[k][3] /\ stack[k][2] <= stack[k][4]
    /\ last.branch = "general" =>
         \A k \in 1..4 : Narrower(stack[k], last.reg)
    /\ pc \notin {"start", "aux"} => pc = "done"

\* C7: on a 2 x H grid, H >= 3, the whole grid takes the column branch, and
\* in the returned grid both lines x = 0 and x = 1 are the truncated linear
\* ramps between their corners.
C7_BothRamps ==
    (W = 2 /\ H >= 3) =>
        /\ (pc = "aux" /\ stack = <<>>) =>
               last.branch = "column" /\ last.reg = <<0, 0, 1, H - 1>>
        /\ pc = "done" =>
               \A x \in {0, 1}, y \in 1..(H - 2) :
                   Truncates(world_map[x][y],
                             world_map[x][0] * (H - 1)
                                 + (world_map[x][H - 1] - world_map[x][0]) * y,
                             H - 1)

\* C9: after the row branch, every cell of line j strictly between x0 and
\* x1 is a + (b - a) * (x - x0) / (x1 - x0) truncated, a the value at x0 and
\* b the value at x1; the branch draws no deviation and makes no call.
C9_RowRamp ==
    last.branch = "row" =>
        LET x0 == last.reg[1]
            x1 == last.reg[3]
        IN  /\ \A x \in (x0 + 1)..(x1 - 1) :
                 Truncates(world_map[x][last.j],
                           last.a * (x1 - x0) + (last.b - last.a) * (x - x0),
                           x1 - x0)
            /\ \A k \in 1..Len(LastEvents) : LastEvents[k][1] # "dev"
            /\ Len(stack) = last.depth - 1

\* C6: after the column branch on endpoints a = grid[i][y0], b = grid[i][y1]
\* (any integers), every cell of line i strictly between y0 and y1 is
\* a + (b - a) * (y - y0) / (y1 - y0) truncated toward zero; the branch makes
\* no Diamond or Square write, no deviation draw and no recursive call.
C6_ColumnRamp ==
    last.branch = "column" =>
        LET y0 == last.reg[2]
            y1 == last.reg[4]
        IN  /\ last.i = last.reg[1] \/ last.i = last.reg[3]
            /\ \A y \in (y0 + 1)..(y1 - 1) :
                 Truncates(world_map[last.i][y],
                           last.a * (y1 - y0) + (last.b - last.a) * (y - y0),
                           y1 - y0)
            /\ world_map[last.i][y0] = last.a
            /\ world_map[last.i][y1] = last.b
            /\ \A k \in 1..Len(LastEvents) :
                 /\ LastEvents[k][1] # "dev"
                 /\ LastEvents[k][1] = "write" =>
                        /\ LastEvents[k][6] = last.i
                        /\ y0 < LastEvents[k][7] /\ LastEvents[k][7] < y1
            /\ Len(stack) = last.depth - 1

\* The column branch has interpolated three or more cells down from a
\* negative endpoint, where truncation and floor differ.
C6_Witness ==
    /\ last.branch = "column"
    /\ last.reg[4] - last.reg[2] >= 3
    /\ last.a < 0
    /\ last.b > last.a
    /\ \E y \in (last.reg[2] + 1)..(last.reg[4] - 1) : world_map[last.i][y] = 0

\* C5: randAugIndex(i0, i1), 0 <= i0 <= i1, any r: the result is in
\* [i0, i1]; strictly interior if i1 - i0 >= 3; i0 if i1 - i0 is 0 or 1;
\* i0 + 1 if i1 - i0 = 2.
C5_IndexRange ==
    probe.called =>
        LET span == probe.i1 - probe.i0
        IN  /\ probe.i0 <= probe.out /\ probe.out <= probe.i1
            /\ span >= 3 => (probe.i0 < probe.out /\ probe.out < probe.i1)
            /\ span \in {0, 1} => probe.out = probe.i0
            /\ span = 2 => probe.out = probe.i0 + 1

\* randAugIndex has returned an index that the random draw moved off the
\* midpoint.
C5_Witness ==
    /\ probe.called
    /\ probe.i1 - probe.i0 >= 3
    /\ probe.out > probe.i0 + (probe.i1 - probe.i0) \div 2

NoZeroBorder(g, w, h) == \A c \in BorderCells(w, h) : g[c[1]][c[2]] # 0

\* C8: edgeCleanup changes only non-corner border cells whose value was 0;
\* on a grid (W, H >= 2) with no zero border cell it changes nothing, the
\* first time and the second; it never modifies a corner or a non-border cell.
C8_CleanupFrame ==
    pc \in {"clean1", "clean2", "error"} =>
        /\ \A c \in Cells(W, H) :
             world_map[c[1]][c[2]] # before[c[1]][c[2]] =>
                 /\ c \in BorderCells(W, H) \ CornerCells(W, H)
                 /\ before[c[1]][c[2]] = 0
        /\ (W >= 2 /\ H >= 2 /\ NoZeroBorder(before, W, H)) =>
               world_map = before /\ pc # "error"

\* edgeCleanup has run twice, the second time on a grid with a zero inside
\* and none on the border.
C8_Witness ==
    /\ pc = "clean2"
    /\ W >= 3 /\ H >= 3
    /\ NoZeroBorder(before, W, H)
    /\ \E c \in Cells(W, H) \ BorderCells(W, H) : before[c[1]][c[2]] = 0
    /\ writes.cleanup # {}

IsDraw(e) == e[1] \in {"corner", "mid", "dev"}

Reg(e) == <<e[2], e[3], e[4], e[5]>>

Inside(r, s) == s[1] <= r[1] /\ r[3] <= s[3] /\ s[2] <= r[2] /\ r[4] <= s[4]

\* Which sub-region of the general call c region r lies in: 1..4, or 0.
ChildNo(c, r) ==
    LET x0 == c[2]
        y0 == c[3]
        x1 == c[4]
        y1 == c[5]
        i == c[6]
        j == c[7]
    IN  IF Inside(r, <<x0, y0, i, j>>) THEN 1
        ELSE IF Inside(r, <<x0, j, i, y1>>) THEN 2
        ELSE IF Inside(r, <<i, y0, x1, j>>) THEN 3
        ELSE IF Inside(r, <<i, j, x1, y1>>) THEN 4
        ELSE 0

IsGeneralCall(e) ==
    /\ e[1] = "call"
    /\ e[2] < e[6] /\ e[6] < e[4]
    /\ e[3] < e[7] /\ e[7] < e[5]

KindOf(e) == e[1]

DrawKinds == [k \in 1..Len(SelectSeq(events, IsDraw)) |->
                 KindOf(SelectSeq(events, IsDraw)[k])]

====
